---- MODULE Spec2Model ----
(***************************************************************************)
(* A model of src/src/advanced_requests.py:                                *)
(*   - RateLimitedSession (__init__, request), with the urllib3 Retry      *)
(*     policy it mounts on its transport;                                  *)
(*   - handle_pagination, the generator that follows the page parameter;   *)
(*   - stream_large_response, the generator over one streaming GET.        *)
(* Time is the integer number of seconds read by time.time().              *)
(***************************************************************************)
EXTENDS Integers, Sequences, FiniteSets, TLC

\* ------------------------------------------------------------------ bounds
\* The clock runs from Epoch to Epoch + Horizon.
Horizon == 8
\* Calls to RateLimitedSession.request each caller makes.
MaxCalls == 2
\* The same two bounds when two callers share the session.
ConcHorizon == 2
ConcCalls == 2

\* handle_pagination: the clock's range, the highest page requested, the
\* longest array the backend serves.
PageHorizon == 2
MaxPage == 3
MaxItems == 2

\* stream_large_response: the body is at most MaxChunks full chunks long.
MaxChunks == 3

\* ------------------------------------------------------- program constants
\* iter_content(chunk_size=8192)
ChunkSize == 8192
\* time.time() when the program starts: far from last_request_time = 0.
Epoch == 100
\* Retry(total=3, backoff_factor=1, status_forcelist=[429, 500, 502, 503, 504])
\* total counts the retries, so up to total + 1 attempts are made.
RetryTotalAsAttempts == 3 - 1
RetryTotal == 3
BackoffFactor == 1
StatusForcelist == {429, 500, 502, 503, 504}
\* urllib3's Retry.DEFAULT_ALLOWED_METHODS, among the methods the client uses:
\* a status of the forcelist is retried for these methods only.  Methods is
\* what the callers pass: one method that is retried and one that is not.
AllowedMethods == {"GET", "PUT", "DELETE"}
Methods == {"GET", "POST"}

\* A rate is the rational num/den requests per second: 1.0 is the default of
\* __init__, 0.5 is what github_api_example passes; 0 and -1 are the rates
\* __init__ does not reject.
Rate(n, d) == [num |-> n, den |-> d]
Rates == {Rate(1, 1), Rate(1, 2), Rate(0, 1), Rate(-1, 1)}
DefaultRate == Rate(1, 1)

\* What the backend can do to one attempt of the transport: answer with a
\* status, or fail the connect, or fail the read.
Statuses == {200, 304, 404, 500}
Resp(s) == [kind |-> "status", code |-> s]
ConnectError == [kind |-> "connect_error", code |-> 0]
ReadError == [kind |-> "read_error", code |-> 0]
Outcomes == {Resp(s) : s \in Statuses} \cup {ConnectError, ReadError}

\* The backend's behaviours when two callers share the session.
ConcOutcomes == {Resp(200), Resp(500), ReadError}

Callers == {1, 2}
\* No time: below every reading of the clock.
NoTime == 0 - 1

VARIABLES
    now,                  \* time.time()
    session,              \* "none" | "ok" | "ConfigurationError": the constructor's outcome
    requests_per_second,  \* self.requests_per_second
    last_request_time,    \* self.last_request_time
    pc,                   \* per caller: "idle" | "sleeping" | "transport"
    method,               \* per caller: the method of the call in progress
    wake,                 \* per caller: when time.sleep / the retry backoff ends
    total,                \* per caller: the Retry object's remaining total
    history,              \* per caller: what the backend did to each attempt of the call
    result,               \* per caller: "none" | "response" | the error raised
    status,               \* per caller: the status of the response returned
    calls,                \* per caller: calls to request started
    reqStart,             \* per caller: when session.request (line 67) was entered
    staleRead,            \* per caller: last_request_time as read at line 63
    lastEnd,              \* when the latest transport call ended (returned or raised)
    lastEndOk             \* whether that transport call returned a response

VARIABLES
    pgState,       \* the generator: "none" | "created" | "loop" | "requesting" |
                   \*   "suspended" (at the yield) | "done" | "raised"
    page,          \* page (line 83)
    params,        \* the local params (line 84), a set of <<key, value>>
    callerGiven,   \* whether the caller passed a mapping (FALSE: None)
    callerParams,  \* the caller's mapping, as the caller sees it
    callerParams0, \* the caller's mapping as it was passed
    data,          \* data (line 91), the page being iterated
    idx,           \* items of data already yielded
    pgError,       \* the exception the generator raised
    yielded,       \* every item yielded, in order
    served,        \* every body the backend served with a 200, in order
    requested      \* the page parameter of every GET passed to session.request

pageVars == <<pgState, page, params, callerGiven, callerParams, callerParams0, data,
              idx, pgError, yielded, served, requested>>

VARIABLES
    stState,    \* the generator: "none" | "created" | "suspended" (at the yield) |
                \*   "done" | "raised" | "closed"
    conn,       \* the connection of the streaming GET: "none" | "open" | "released"
    stStatus,   \* the status of the response (0: no response)
    remaining,  \* bytes of the body not read yet
    chunks,     \* the length of every chunk yielded, in order
    stError     \* the exception the generator raised

streamVars == <<stState, conn, stStatus, remaining, chunks, stError>>

sessionVars == <<now, session, requests_per_second, last_request_time, pc, method,
                 wake, total, history, result, status, calls, reqStart, staleRead,
                 lastEnd, lastEndOk>>

vars == <<sessionVars, pageVars, streamVars>>

\* ------------------------------------------------------ RateLimitedSession

\* 1/self.requests_per_second (lines 64-65); the caller guards num # 0.
IntervalShort(r) == (r.den \div r.num) - 1
Interval(r) == r.den \div r.num

\* The interval as line 65 uses it to size the sleep.
SleepInterval(r) == Interval(r)

\* Retry.get_backoff_time: backoff_factor * 2^(consecutive errors - 1).
RECURSIVE Pow2(_)
Pow2(n) == IF n <= 0 THEN 1 ELSE 2 * Pow2(n - 1)
BackoffTime(n) == BackoffFactor * Pow2(n - 1)

\* Retry.is_retry / Retry.increment: does this outcome of an attempt consume
\* a retry?  Connect errors always; read errors and forcelist statuses only
\* for the allowed (idempotent) methods.
IsRetry(m, o) ==
    \/ o = ConnectError
    \/ o = ReadError /\ m \in AllowedMethods
    \/ o.kind = "status" /\ o.code \in StatusForcelist /\ m \in AllowedMethods

\* The error session.request raises when the retries are exhausted or the
\* failure is not retried.
ErrorOf(o) == IF o.kind = "status" THEN "RetryError" ELSE "ConnectionError"

SessionInit ==
    /\ now = Epoch
    /\ session = "none"
    /\ requests_per_second = DefaultRate
    /\ last_request_time = 0
    /\ pc = [c \in Callers |-> "idle"]
    /\ method = [c \in Callers |-> "GET"]
    /\ wake = [c \in Callers |-> NoTime]
    /\ total = [c \in Callers |-> RetryTotal]
    /\ history = [c \in Callers |-> <<>>]
    /\ result = [c \in Callers |-> "none"]
    /\ status = [c \in Callers |-> 0]
    /\ calls = [c \in Callers |-> 0]
    /\ reqStart = [c \in Callers |-> NoTime]
    /\ staleRead = [c \in Callers |-> NoTime]
    /\ lastEnd = NoTime
    /\ lastEndOk = FALSE

\* The clock advances.
Tick(horizon) ==
    /\ now < Epoch + horizon
    /\ now' = now + 1
    /\ UNCHANGED <<session, requests_per_second, last_request_time, pc, method, wake,
                   total, history, result, status, calls, reqStart, staleRead,
                   lastEnd, lastEndOk>>

\* RateLimitedSession.__init__ (lines 35-48): stores the rate as given.
Construct(r) ==
    /\ session = "none"
    /\ session' = "ok"
    /\ requests_per_second' = r
    /\ last_request_time' = 0
    /\ UNCHANGED <<now, pc, method, wake, total, history, result, status, calls,
                   reqStart, staleRead, lastEnd, lastEndOk>>

\* The transport call of line 67 is entered by caller c.
EnterTransport(c) ==
    /\ pc' = [pc EXCEPT ![c] = "transport"]
    /\ reqStart' = [reqStart EXCEPT ![c] = now]
    /\ total' = [total EXCEPT ![c] = RetryTotal]
    /\ history' = [history EXCEPT ![c] = <<>>]

\* request, lines 63-65: read the clock and last_request_time, then sleep or go on.
Request(c, m, maxCalls) ==
    /\ session = "ok"
    /\ pc[c] = "idle"
    /\ calls[c] < maxCalls
    /\ calls' = [calls EXCEPT ![c] = @ + 1]
    /\ method' = [method EXCEPT ![c] = m]
    /\ staleRead' = [staleRead EXCEPT ![c] = last_request_time]
    /\ status' = [status EXCEPT ![c] = 0]
    /\ IF requests_per_second.num = 0
       THEN \* 1/0 at line 64: ZeroDivisionError, nothing is sent
            /\ result' = [result EXCEPT ![c] = "ZeroDivisionError"]
            /\ history' = [history EXCEPT ![c] = <<>>]
            /\ reqStart' = [reqStart EXCEPT ![c] = NoTime]
            /\ UNCHANGED <<pc, wake, total>>
       ELSE LET elapsed == now - last_request_time
                interval == SleepInterval(requests_per_second)
            IN  /\ result' = [result EXCEPT ![c] = "none"]
                /\ IF elapsed < interval
                   THEN /\ pc' = [pc EXCEPT ![c] = "sleeping"]
                        /\ wake' = [wake EXCEPT ![c] = now + (interval - elapsed)]
                        /\ history' = [history EXCEPT ![c] = <<>>]
                        /\ reqStart' = [reqStart EXCEPT ![c] = NoTime]
                        /\ UNCHANGED total
                   ELSE /\ EnterTransport(c)
                        /\ wake' = [wake EXCEPT ![c] = now]
    /\ UNCHANGED <<now, session, requests_per_second, last_request_time,
                   lastEnd, lastEndOk>>

\* time.sleep (line 65) returns, no earlier than asked.
Wake(c) ==
    /\ pc[c] = "sleeping"
    /\ now >= wake[c]
    /\ EnterTransport(c)
    /\ UNCHANGED <<now, session, requests_per_second, last_request_time, method, wake,
                   result, status, calls, staleRead, lastEnd, lastEndOk>>

\* Line 68, reached only when session.request returned.
UpdateLastRequestTime == last_request_time' = now

\* Caller c's latest call to request is over: it returned or raised.
Finished(c) == pc[c] = "idle" /\ result[c] # "none"

\* One attempt of the transport inside session.request (line 67) ends with
\* outcome o: it is retried after the backoff, or it raises, or the response
\* is returned and line 68 stores the time.
Attempt(c, o) ==
    /\ pc[c] = "transport"
    /\ now >= wake[c]
    /\ history' = [history EXCEPT ![c] = Append(@, o)]
    /\ IF IsRetry(method[c], o) /\ total[c] - 1 >= 0
       THEN \* retry after the backoff
            /\ total' = [total EXCEPT ![c] = @ - 1]
            /\ wake' = [wake EXCEPT ![c] = now + BackoffTime(Len(history[c]) + 1)]
            /\ UNCHANGED <<pc, result, status, last_request_time, lastEnd, lastEndOk>>
       ELSE IF IsRetry(method[c], o) \/ o.kind # "status"
       THEN \* retries exhausted, or a read error that is not retried: raise
            /\ pc' = [pc EXCEPT ![c] = "idle"]
            /\ result' = [result EXCEPT ![c] = ErrorOf(o)]
            /\ lastEnd' = now
            /\ lastEndOk' = FALSE
            /\ UNCHANGED <<total, wake, status, last_request_time>>
       ELSE \* the response is returned (lines 67-69)
            /\ pc' = [pc EXCEPT ![c] = "idle"]
            /\ result' = [result EXCEPT ![c] = "response"]
            /\ status' = [status EXCEPT ![c] = o.code]
            /\ UpdateLastRequestTime
            /\ lastEnd' = now
            /\ lastEndOk' = TRUE
            /\ UNCHANGED <<total, wake>>
    /\ UNCHANGED <<now, session, requests_per_second, method, calls, reqStart, staleRead>>

\* ------------------------------------------------------- handle_pagination

\* JSON bodies: what response.json() returns.  items holds the elements of
\* an array, the keys of an object, the characters of a string, the value
\* of a number.
Arr(s) == [type |-> "array", items |-> s]
Obj(s) == [type |-> "object", items |-> s]
Str(s) == [type |-> "string", items |-> s]
Num(n) == [type |-> "number", items |-> <<n>>]
Null == [type |-> "null", items |-> <<>>]

Items == {1, 2}
SeqsUpTo(n) == UNION {[1..k -> Items] : k \in 0..n}
Arrays == {Arr(s) : s \in SeqsUpTo(MaxItems)}
NonArrays == {Obj(<<>>), Obj(<<1>>), Str(<<>>), Str(<<1, 2>>), Num(0), Num(1), Null}
Bodies == Arrays \cup NonArrays

\* Python's truth value of a parsed body (line 92).
Truthy(d) ==
    CASE d.type = "null" -> FALSE
      [] d.type = "number" -> d.items[1] # 0
      [] OTHER -> d.items # <<>>

\* Whether `for item in data` (line 95) can iterate the body.
Iterable(d) == d.type \in {"array", "object", "string"}

\* dict[key] = value on a mapping held as a set of <<key, value>>.
SetItem(d, k, v) == {kv \in d : kv[1] # k} \cup {<<k, v>>}

\* The mappings a caller passes: None (not given), {}, {"userId": 1}, {"page": 7}.
ParamInputs == {{}, {<<"userId", 1>>}, {<<"page", 7>>}}

\* `params = params or {}` (line 84): the caller's own mapping when it is
\* given and non-empty, a fresh one otherwise.
AliasesCaller(given, p) == given /\ p # {}
Aliased == AliasesCaller(callerGiven, callerParams0)

\* Response.raise_for_status raises HTTPError for 400 <= status < 600.
RaisesForServerError(s) == 500 <= s /\ s < 600
RaisesForStatus(s) == 400 <= s /\ s < 600

PageInit ==
    /\ pgState = "none"
    /\ page = 0
    /\ params = {}
    /\ callerGiven = FALSE
    /\ callerParams = {}
    /\ callerParams0 = {}
    /\ data = Null
    /\ idx = 0
    /\ pgError = "none"
    /\ yielded = <<>>
    /\ served = <<>>
    /\ requested = <<>>

\* handle_pagination(url, params) is called: a generator is made, none of
\* its body runs yet.
PgCall(given, p) ==
    /\ pgState = "none"
    /\ given \/ p = {}
    /\ pgState' = "created"
    /\ callerGiven' = given
    /\ callerParams' = p
    /\ callerParams0' = p
    /\ UNCHANGED <<page, params, data, idx, pgError, yielded, served, requested>>
    /\ UNCHANGED sessionVars

\* The first next(): lines 82-84.
PgStart ==
    /\ pgState = "created"
    /\ Construct(DefaultRate)
    /\ page' = 1
    /\ params' = IF Aliased THEN callerParams ELSE {}
    /\ pgState' = "loop"
    /\ UNCHANGED <<callerGiven, callerParams, callerParams0, data, idx, pgError,
                   yielded, served, requested>>

\* Lines 87-88: store the page in params and enter session.request.
PgRequest ==
    /\ pgState = "loop"
    /\ page <= MaxPage
    /\ params' = SetItem(params, "page", page)
    /\ callerParams' = IF Aliased THEN params' ELSE callerParams
    /\ requested' = Append(requested, page)
    /\ Request(1, "GET", MaxPage)
    /\ pgState' = "requesting"
    /\ UNCHANGED <<page, callerGiven, callerParams0, data, idx, pgError, yielded, served>>

\* page += 1 (line 98).
NextPageStuck(p) == p
NextPage(p) == p + 1

\* Lines 95-98 once data is something to iterate from position i: yield the
\* next item, or go to the next page.
IterateFrom(d, i) ==
    IF i < Len(d.items)
    THEN /\ yielded' = Append(yielded, d.items[i + 1])
         /\ idx' = i + 1
         /\ pgState' = "suspended"
         /\ page' = page
    ELSE /\ page' = NextPage(page)
         /\ idx' = 0
         /\ pgState' = "loop"
         /\ yielded' = yielded

\* session.request is over (line 88): lines 89-96, with the body the backend
\* sent along a 200.
PgReceive(body) ==
    /\ pgState = "requesting"
    /\ Finished(1)
    /\ IF result[1] # "response"
       THEN \* session.request raised
            /\ pgState' = "raised"
            /\ pgError' = result[1]
            /\ UNCHANGED <<page, data, idx, yielded, served>>
       ELSE IF RaisesForStatus(status[1])
       THEN \* line 89
            /\ pgState' = "raised"
            /\ pgError' = "HTTPError"
            /\ UNCHANGED <<page, data, idx, yielded, served>>
       ELSE IF status[1] # 200
       THEN \* a 304 has no body: response.json() raises (line 91)
            /\ pgState' = "raised"
            /\ pgError' = "JSONDecodeError"
            /\ UNCHANGED <<page, data, idx, yielded, served>>
       ELSE /\ served' = Append(served, body)
            /\ data' = body
            /\ IF ~Truthy(body)
               THEN \* lines 92-93
                    /\ pgState' = "done"
                    /\ UNCHANGED <<page, idx, yielded, pgError>>
               ELSE IF ~Iterable(body)
               THEN \* line 95 on a number
                    /\ pgState' = "raised"
                    /\ pgError' = "TypeError"
                    /\ UNCHANGED <<page, idx, yielded>>
               ELSE /\ IterateFrom(body, 0)
                    /\ pgError' = pgError
    /\ UNCHANGED <<params, callerGiven, callerParams, callerParams0, requested>>
    /\ UNCHANGED sessionVars

\* next() on the generator suspended at the yield (line 96).
PgResume ==
    /\ pgState = "suspended"
    /\ IterateFrom(data, idx)
    /\ UNCHANGED <<params, callerGiven, callerParams, callerParams0, data, pgError,
                   served, requested>>
    /\ UNCHANGED sessionVars

\* --------------------------------------------------- stream_large_response

\* The statuses a streaming GET can end with: 101 and the 3xx ones are not
\* followed further by the transport.
StreamStatuses == {101, 200, 204, 300, 304, 404, 500}
\* 1xx, 204 and 304 responses carry no body.
HasBody(s) == s >= 200 /\ s \notin {204, 304}
BodySizes == {k * ChunkSize + d : k \in 0..(MaxChunks - 1), d \in {0, 1}}
                 \cup {MaxChunks * ChunkSize}
Min(a, b) == IF a <= b THEN a ELSE b

\* The connection once the with block of line 110 is left, by path:
\* "exhausted" (the loop ends), "error" (an exception passes through),
\* "abandoned" (GeneratorExit at the yield).
ConnAfterLoopOnly(path) == IF path = "exhausted" THEN "released" ELSE "open"
ConnAfter(path) == "released"

StreamInit ==
    /\ stState = "none"
    /\ conn = "none"
    /\ stStatus = 0
    /\ remaining = 0
    /\ chunks = <<>>
    /\ stError = "none"

\* stream_large_response(url) is called: a generator is made.
StCall ==
    /\ stState = "none"
    /\ stState' = "created"
    /\ UNCHANGED <<conn, stStatus, remaining, chunks, stError>>

\* Lines 112-113 with `left` bytes of the body unread: the read fails, or
\* the next chunk is yielded, or the body is exhausted and the with block
\* is left.
NextChunk(left, readOk) ==
    IF left > 0 /\ ~readOk
    THEN /\ stState' = "raised"
         /\ stError' = "ConnectionError"
         /\ conn' = ConnAfter("error")
         /\ remaining' = left
         /\ chunks' = chunks
    ELSE IF left > 0
    THEN /\ chunks' = Append(chunks, Min(ChunkSize, left))
         /\ remaining' = left - Min(ChunkSize, left)
         /\ stState' = "suspended"
         /\ conn' = "open"
         /\ stError' = stError
    ELSE /\ stState' = "done"
         /\ conn' = ConnAfter("exhausted")
         /\ remaining' = left
         /\ chunks' = chunks
         /\ stError' = stError

\* The first next(): requests.get(url, stream=True) fails to connect, or
\* answers with status s and a body of `size` bytes (lines 110-113).
StStart(connected, s, size, readOk) ==
    /\ stState = "created"
    /\ IF ~connected
       THEN /\ stState' = "raised"
            /\ stError' = "ConnectionError"
            /\ UNCHANGED <<conn, stStatus, remaining, chunks>>
       ELSE /\ HasBody(s) \/ size = 0
            /\ stStatus' = s
            /\ IF RaisesForStatus(s)
               THEN \* line 111
                    /\ stState' = "raised"
                    /\ stError' = "HTTPError"
                    /\ conn' = ConnAfter("error")
                    /\ remaining' = size
                    /\ chunks' = chunks
               ELSE NextChunk(size, readOk)

\* next() on the generator suspended at the yield (line 113).
StResume(readOk) ==
    /\ stState = "suspended"
    /\ NextChunk(remaining, readOk)
    /\ UNCHANGED stStatus

\* The consumer abandons the generator: close() raises GeneratorExit at the
\* yield, which leaves the with block; a generator not started just ends.
StClose ==
    /\ stState \in {"created", "suspended"}
    /\ stState' = "closed"
    /\ conn' = IF stState = "suspended" THEN ConnAfter("abandoned") ELSE conn
    /\ UNCHANGED <<stStatus, remaining, chunks, stError>>

\* --------------------------------------------------------- specifications

Init == SessionInit /\ PageInit /\ StreamInit

\* One caller uses the session.
Next ==
    \/ Tick(Horizon) /\ UNCHANGED <<pageVars, streamVars>>
    \/ \E r \in Rates : Construct(r) /\ UNCHANGED <<pageVars, streamVars>>
    \/ \E m \in Methods : Request(1, m, MaxCalls) /\ UNCHANGED <<pageVars, streamVars>>
    \/ Wake(1) /\ UNCHANGED <<pageVars, streamVars>>
    \/ \E o \in Outcomes : Attempt(1, o) /\ UNCHANGED <<pageVars, streamVars>>

Spec == Init /\ [][Next]_vars

\* A consumer drives handle_pagination to its end.
PageOutcomes == {Resp(200), Resp(304), Resp(404), Resp(500)}
PageNext ==
    \/ Tick(PageHorizon) /\ UNCHANGED <<pageVars, streamVars>>
    \/ \E given \in BOOLEAN, p \in ParamInputs : PgCall(given, p) /\ UNCHANGED streamVars
    \/ PgStart /\ UNCHANGED streamVars
    \/ PgRequest /\ UNCHANGED streamVars
    \/ Wake(1) /\ UNCHANGED <<pageVars, streamVars>>
    \/ \E o \in PageOutcomes : Attempt(1, o) /\ UNCHANGED <<pageVars, streamVars>>
    \/ \E body \in Bodies : PgReceive(body) /\ UNCHANGED streamVars
    \/ PgResume /\ UNCHANGED streamVars

SpecPage == Init /\ [][PageNext]_vars

\* A consumer drives stream_large_response, to its end or not.
StreamNext ==
    \/ StCall /\ UNCHANGED <<sessionVars, pageVars>>
    \/ \E connected, readOk \in BOOLEAN, s \in StreamStatuses, size \in BodySizes :
           StStart(connected, s, size, readOk) /\ UNCHANGED <<sessionVars, pageVars>>
    \/ \E readOk \in BOOLEAN : StResume(readOk) /\ UNCHANGED <<sessionVars, pageVars>>
    \/ StClose /\ UNCHANGED <<sessionVars, pageVars>>

SpecStream == Init /\ [][StreamNext]_vars

\* Two callers share the session, with no lock (section 5 of the design).
ConcNext ==
    \/ Tick(ConcHorizon) /\ UNCHANGED <<pageVars, streamVars>>
    \/ \E r \in Rates : Construct(r) /\ UNCHANGED <<pageVars, streamVars>>
    \/ \E c \in Callers, m \in Methods : Request(c, m, ConcCalls) /\ UNCHANGED <<pageVars, streamVars>>
    \/ \E c \in Callers : Wake(c) /\ UNCHANGED <<pageVars, streamVars>>
    \/ \E c \in Callers, o \in ConcOutcomes : Attempt(c, o) /\ UNCHANGED <<pageVars, streamVars>>

SpecConc == Init /\ [][ConcNext]_vars

\* ---------------------------------------------- claims about the session

FirstThree500(c) ==
    /\ Len(history[c]) >= 3
    /\ \A i \in 1..3 : history[c][i] = Resp(500)

\* C1: with a rate r > 0 and one caller, each transport call starts at least
\* 1/r seconds after the end of the previous one, whether that one returned
\* or raised.
C1_MinIntervalAfterAnyCall ==
    (pc[1] = "transport" /\ lastEnd # NoTime /\ requests_per_second.num > 0)
        => reqStart[1] - lastEnd >= Interval(requests_per_second)

\* C2: a rate of 0 or less never gives a usable session: construction fails
\* and no call on it reaches the transport.
C2_NonPositiveRateRejected ==
    requests_per_second.num <= 0
        => /\ session # "ok"
           /\ \A c \in Callers : calls[c] = 0 /\ pc[c] = "idle"

C8_UpdatedAfterEveryCall ==
    (lastEnd # NoTime /\ requests_per_second.num > 0)
        => last_request_time = lastEnd

\* C10: with two callers and no lock, a request is only kept 1/r away from
\* the last_request_time its caller read at line 63: whenever two requests
\* start less than 1/r apart, the later one was sized from a value read
\* before the earlier one started.
TooClose(c, d) ==
    /\ c # d
    /\ reqStart[c] # NoTime /\ reqStart[d] # NoTime
    /\ reqStart[d] <= reqStart[c]
    /\ reqStart[c] - reqStart[d] < Interval(requests_per_second)

C10_OnlyStaleReadsCollide ==
    requests_per_second.num > 0
        => \A c \in Callers :
              /\ reqStart[c] # NoTime
                    => reqStart[c] - staleRead[c] >= Interval(requests_per_second)
              /\ \A d \in Callers : TooClose(c, d) => staleRead[c] < reqStart[d]

\* Both callers read the same last_request_time, left by an earlier request,
\* and both are in the transport less than 1/r apart.
C10_Witness ==
    /\ requests_per_second.num > 0
    /\ pc[1] = "transport" /\ pc[2] = "transport"
    /\ staleRead[1] = staleRead[2] /\ staleRead[1] >= Epoch
    /\ TooClose(1, 2)

\* ------------------------------------------- claims about handle_pagination

RECURSIVE Concat(_)
Concat(bs) ==
    IF bs = <<>> THEN <<>>
    ELSE Concat(SubSeq(bs, 1, Len(bs) - 1)) \o bs[Len(bs)].items
OneTo(n) == [i \in 1..n |-> i]
NonEmptyArray(d) == d.type = "array" /\ d.items # <<>>

\* The backend has served P1, ..., Pn, [] with every Pi a non-empty array.
PagesThenEmpty ==
    /\ served # <<>>
    /\ served[Len(served)] = Arr(<<>>)
    /\ \A i \in 1..(Len(served) - 1) : NonEmptyArray(served[i])

\* C3: once the backend has served P1, ..., Pn, [], the generator is done,
\* it has yielded exactly P1 ++ ... ++ Pn in order, and the GETs it passed
\* to session.request are exactly those for pages 1, 2, ..., n+1, in that
\* order: nothing is requested or yielded after the empty page.
C3_PagesConcatenated ==
    PagesThenEmpty
        => /\ pgState = "done"
           /\ yielded = Concat(SubSeq(served, 1, Len(served) - 1))
           /\ requested = OneTo(Len(served))

C3_Witness ==
    /\ pgState = "done"
    /\ served = <<Arr(<<1, 2>>), Arr(<<2>>), Arr(<<>>)>>
    /\ yielded = <<1, 2, 2>>
    /\ requested = <<1, 2, 3>>

\* C4: a body that parses but is not an array makes the generator raise a
\* decode error at once: it is the last body requested and nothing is
\* yielded from it.
C4_NonArrayIsDecodeError ==
    \A i \in 1..Len(served) :
        served[i].type # "array"
            => /\ pgState = "raised" /\ pgError = "JSONDecodeError"
               /\ i = Len(served)
               /\ yielded = Concat(SubSeq(served, 1, i - 1))

\* C9: the caller's mapping is never changed by the generator.
C9_CallerParamsUnchanged == callerParams = callerParams0

\* ---------------------------------------- claims about stream_large_response

\* C5: whenever the generator has ended, by exhaustion, by an error or by
\* being closed early, the connection of the streaming GET is not open.
C5_ConnectionReleased ==
    stState \in {"done", "raised", "closed"} => conn # "open"

\* The consumer closed the generator after one chunk, with more to read.
C5_Witness ==
    /\ stState = "closed" /\ Len(chunks) = 1 /\ remaining > 0
    /\ conn = "released"

\* C6 as stated: a response with a status outside 200..299 makes the
\* generator raise HTTPError with no chunk yielded.
C6_Non2xxRaises ==
    (stStatus # 0 /\ ~(200 <= stStatus /\ stStatus < 300))
        => stState = "raised" /\ stError = "HTTPError" /\ chunks = <<>>

\* C6 as amended: a response with a status in 400..599 makes the generator
\* raise HTTPError with no chunk yielded; chunks are only yielded for a
\* status outside 400..599.
C6_ErrorStatusRaises ==
    /\ (stStatus # 0 /\ 400 <= stStatus /\ stStatus < 600)
          => stState = "raised" /\ stError = "HTTPError" /\ chunks = <<>>
    /\ chunks # <<>> => (stStatus # 0 /\ ~(400 <= stStatus /\ stStatus < 600))

C6_Witness ==
    /\ stStatus = 404 /\ remaining > 0
    /\ stState = "raised" /\ stError = "HTTPError" /\ chunks = <<>>

====
